---- MODULE Spec2Model ----
(***************************************************************************)
(* A model of sample-tester's input side:                                  *)
(*   - sampletester/parser.py   IndexedDocs, the typed document store      *)
(*   - sampletester/inputs.py   index_docs, explicit/implicit indexing     *)
(*   - gen_manifest/gen_manifest.py  region tags, emitters, the CLI        *)
(*                                                                         *)
(* Strings are sequences of lexemes: a delimiter the code looks for ("/",  *)
(* ".", "=", "-", "*") and a word it tests for ("core") is always a lexeme *)
(* of its own, so that split, startswith, splitext and `in` are computed   *)
(* on the string the way the code computes them.                           *)
(***************************************************************************)
EXTENDS Integers, Sequences, FiniteSets, TLC

VARIABLES
  keyed_docs,   \* IndexedDocs.keyed_docs: type key -> list of Documents
  strict,       \* IndexedDocs.strict
  resolver,     \* IndexedDocs.resolver
  added,        \* history: the Documents handed to _add_one by add_documents, in order
  last,         \* history: outcome of the last IndexedDocs operation
  tree,         \* the working tree index_docs runs in
  idx,          \* outcome of the last index_docs call
  sample,       \* the sample file get_region_tag is called on
  tag,          \* outcome of the last get_region_tag call
  run           \* outcome of the last run of the manifest generator CLI

vars == <<keyed_docs, strict, resolver, added, last, tree, idx, sample, tag, run>>

-----------------------------------------------------------------------------
(* Bounds *)

MaxDocs == 3      \* documents handed to one store over its life
MaxBatch == 2     \* documents in one add_documents call / one YAML source
MaxSources == 2   \* sources in one from_strings / from_files call
MaxTree == 4      \* entries of the working tree index_docs runs in
MaxPatterns == 2  \* patterns in one index_docs call
MaxMarkers == 4   \* pieces of text (markers and other text) in one sample file
MaxTokens == 3    \* FILES_AND_TAGS arguments in one run of the generator

-----------------------------------------------------------------------------
(* Strings *)

\* first index of lexeme c in s, 0 when absent (str.find + 1)
IndexOf(s, c) ==
  IF \E i \in 1..Len(s) : s[i] = c
  THEN CHOOSE i \in 1..Len(s) : s[i] = c /\ \A j \in 1..(i-1) : s[j] # c
  ELSE 0

\* last index of lexeme c in s, 0 when absent (str.rfind + 1)
LastIndexOf(s, c) ==
  IF \E i \in 1..Len(s) : s[i] = c
  THEN CHOOSE i \in 1..Len(s) : s[i] = c /\ \A j \in (i+1)..Len(s) : s[j] # c
  ELSE 0

\* s.split(sep, 1)[0]
SplitHead(s, sep) ==
  IF IndexOf(s, sep) = 0 THEN s ELSE SubSeq(s, 1, IndexOf(s, sep) - 1)

\* os.path.splitext(p): <<root, ext>>; leading dots of the basename are no extension
splitext(p) ==
  LET sepIndex == LastIndexOf(p, "/")
      dotIndex == LastIndexOf(p, ".")
  IN IF dotIndex > sepIndex /\ \E k \in (sepIndex+1)..(dotIndex-1) : p[k] # "."
     THEN <<SubSeq(p, 1, dotIndex - 1), SubSeq(p, dotIndex, Len(p))>>
     ELSE <<p, <<>>>>

CWD == <<"/", "w", "/">>

\* os.path.abspath of a path relative to the working directory
abspath(p) == IF Len(p) > 0 /\ p[1] = "/" THEN p ELSE CWD \o p

-----------------------------------------------------------------------------
(* sampletester/parser.py *)

SCHEMA_TYPE_ABSENT == <<"(no type)">>
SCHEMA_TYPE_SEPARATOR == "/"
MANIFEST_TYPE == <<"manifest">>
TESTPLAN_TYPE == <<"testplan">>

\* Python values a top-level 'type' field can hold
NoneV == [py |-> "None", n |-> 0, s |-> <<>>]
IntV(k) == [py |-> "int", n |-> k, s |-> <<>>]
StrV(x) == [py |-> "str", n |-> 0, s |-> x]

\* bool(v)
Truthy(v) ==
  CASE v.py = "None" -> FALSE
    [] v.py = "int" -> v.n # 0
    [] OTHER -> v.s # <<>>

\* A parsed YAML unit: a mapping (with or without a 'type' field) or anything else
NotADict == [isdict |-> FALSE, has_type |-> FALSE, type |-> NoneV]
DictNoType == [isdict |-> TRUE, has_type |-> FALSE, type |-> NoneV]
DictTyped(v) == [isdict |-> TRUE, has_type |-> TRUE, type |-> v]

Objs ==
  { NotADict, DictNoType,
    DictTyped(IntV(5)), DictTyped(StrV(<<>>)),
    DictTyped(StrV(<<"manifest", "/", "samples">>)),
    DictTyped(StrV(<<"testplan">>)),
    DictTyped(StrV(<<"(no type)", "/", "x">>)) }

\* Document(path, obj); id tells apart the objects that are equal as tuples
Document(i, p, o) == [id |-> i, path |-> p, obj |-> o]

\* doc.obj.get('type', None) if isinstance(doc.obj, dict) else None
SpecifiedType(doc) ==
  IF doc.obj.isdict /\ doc.obj.has_type THEN doc.obj.type ELSE NoneV

\* IndexedDocs.of_type
of_type(kd, type_name) ==
  IF type_name \in DOMAIN kd THEN kd[type_name] ELSE <<>>

\* IndexedDocs.contains, for one name and for a list of names
contains1(kd, name) == name \in DOMAIN kd

contains(kd, type_names) ==
  \A i \in 1..Len(type_names) : contains1(kd, type_names[i])

\* _add_one that appends to the looked-up list without registering a new one
add_one_unregistered(kd, type_name, doc) ==
  IF type_name \in DOMAIN kd
  THEN [kd EXCEPT ![type_name] = Append(kd[type_name], doc)]
  ELSE kd

\* IndexedDocs._add_one
add_one(kd, type_name, doc) ==
  [k \in DOMAIN kd \cup {type_name} |->
     IF k = type_name THEN Append(of_type(kd, type_name), doc) ELSE kd[k]]

-----------------------------------------------------------------------------
(* sampletester/inputs.py: the filename resolver *)

EXT_YAML == <<".", "yaml">>
EXT_MANIFEST == <<".", "manifest">>

\* untyped_yaml_resolver
untyped_yaml_resolver(unknown_doc) ==
  LET ext_split == splitext(unknown_doc.path)
      ext == ext_split[2]
  IN IF ext = EXT_YAML
     THEN IF splitext(ext_split[1])[2] = EXT_MANIFEST
          THEN MANIFEST_TYPE
          ELSE TESTPLAN_TYPE
     ELSE SCHEMA_TYPE_ABSENT

\* The resolvers a store is built with: none, the filename resolver, and two
\* deterministic test resolvers (one names a new type, one declines by "" or '(no type)')
Resolvers == {"None", "untyped_yaml_resolver", "other_resolver", "declining_resolver"}

\* self.resolver(unknown_doc)
CallResolver(r, doc) ==
  CASE r = "untyped_yaml_resolver" -> untyped_yaml_resolver(doc)
    [] r = "other_resolver" ->
         IF doc.obj.isdict THEN <<"other", "/", "sub">> ELSE <<>>
    [] OTHER ->
         IF doc.obj.isdict THEN <<>> ELSE SCHEMA_TYPE_ABSENT

-----------------------------------------------------------------------------
(* sampletester/parser.py: resolution and insertion *)

\* the None that resolve_uncategorized writes over a moved document
NoneDoc == [id |-> 0, path |-> <<>>, obj |-> NotADict]

\* [doc for doc in unknowns if doc]
RECURSIVE DropNones(_)
DropNones(unknowns) ==
  IF unknowns = <<>> THEN <<>>
  ELSE IF Head(unknowns) = NoneDoc THEN DropNones(Tail(unknowns))
       ELSE <<Head(unknowns)>> \o DropNones(Tail(unknowns))

\* the loop of resolve_uncategorized, from index i on; st = [kd, unknowns]
RECURSIVE resolve_loop(_, _, _)
resolve_loop(st, i, r) ==
  IF i > Len(st.unknowns) THEN st
  ELSE LET unknown_doc == st.unknowns[i]
           new_type == CallResolver(r, unknown_doc)
       IN IF new_type = <<>> \/ new_type = SCHEMA_TYPE_ABSENT
          THEN resolve_loop(st, i + 1, r)
          ELSE resolve_loop([kd |-> add_one(st.kd, new_type, unknown_doc),
                             unknowns |-> [st.unknowns EXCEPT ![i] = NoneDoc]],
                            i + 1, r)

\* the last line of resolve_uncategorized: the '(no type)' list without the Nones
set_unknowns(done) ==
  [k \in DOMAIN done.kd \cup {SCHEMA_TYPE_ABSENT} |->
     IF k = SCHEMA_TYPE_ABSENT THEN DropNones(done.unknowns) ELSE done.kd[k]]

\* resolve_uncategorized that forgets to blank the moved entry (unknowns[idx]=None)
resolve_keeping_moved(kd, r) ==
  IF r = "None" THEN kd
  ELSE set_unknowns([kd |-> resolve_loop([kd |-> kd,
                                          unknowns |-> of_type(kd, SCHEMA_TYPE_ABSENT)],
                                         1, r).kd,
                     unknowns |-> of_type(kd, SCHEMA_TYPE_ABSENT)])

\* IndexedDocs.resolve_uncategorized
resolve_uncategorized(kd, r) ==
  IF r = "None" THEN kd
  ELSE set_unknowns(resolve_loop([kd |-> kd,
                                  unknowns |-> of_type(kd, SCHEMA_TYPE_ABSENT)],
                                 1, r))

\* the for loop of add_documents without `specified_type = SCHEMA_TYPE_ABSENT`:
\* a value that is no string is split as if it were its text
RECURSIVE add_loop_unforced(_, _, _, _)
add_loop_unforced(kd, documents, i, strct) ==
  IF i > Len(documents) THEN [kd |-> kd, err |-> "none", done |-> Len(documents)]
  ELSE IF strct /\ (~Truthy(SpecifiedType(documents[i]))
                    \/ SpecifiedType(documents[i]).py # "str")
       THEN [kd |-> kd, err |-> "SyntaxError", done |-> i - 1]
       ELSE add_loop_unforced(add_one(kd, SplitHead(SpecifiedType(documents[i]).s,
                                                    SCHEMA_TYPE_SEPARATOR),
                                      documents[i]),
                              documents, i + 1, strct)

\* the for loop of add_documents, from index i on; stops at the first SyntaxError.
\* Result: the store, the error, and how many documents reached _add_one.
RECURSIVE add_loop(_, _, _, _)
add_loop(kd, documents, i, strct) ==
  IF i > Len(documents) THEN [kd |-> kd, err |-> "none", done |-> Len(documents)]
  ELSE LET doc == documents[i]
           specified_type == SpecifiedType(doc)
       IN IF strct /\ (~Truthy(specified_type) \/ specified_type.py # "str")
          THEN [kd |-> kd, err |-> "SyntaxError", done |-> i - 1]
          ELSE LET typed == IF specified_type.py # "str"
                            THEN SCHEMA_TYPE_ABSENT
                            ELSE specified_type.s
                   type_name == SplitHead(typed, SCHEMA_TYPE_SEPARATOR)
               IN add_loop(add_one(kd, type_name, doc), documents, i + 1, strct)

\* the call of resolve_uncategorized that ends add_documents (not reached on a raise);
\* moved counts the documents it took out of the '(no type)' list
resolve_after(looped, resolved) ==
  IF looped.err # "none"
  THEN [kd |-> looped.kd, err |-> looped.err, done |-> looped.done, moved |-> 0]
  ELSE [kd |-> resolved, err |-> "none", done |-> looped.done,
        moved |-> Len(of_type(looped.kd, SCHEMA_TYPE_ABSENT))
                    - Len(of_type(resolved, SCHEMA_TYPE_ABSENT))]

resolve_looped(looped, r) == resolve_after(looped, resolve_uncategorized(looped.kd, r))

\* IndexedDocs.add_documents
add_documents(kd, documents, strct, r) ==
  resolve_looped(add_loop(kd, documents, 1, strct), r)

-----------------------------------------------------------------------------
(* The files and sources the store is fed from *)

P_MANIFEST == <<"x", ".", "manifest", ".", "yaml">>
P_PLAN == <<"t", ".", "yaml">>
P_NOTES == <<"notes", ".", "txt">>
P_DIR == <<"d", ".", "yaml">>
P_MISSING == <<"gone", ".", "yaml">>

File(p, c) == [path |-> p, kind |-> "file", content |-> c]
Dir(p) == [path |-> p, kind |-> "dir", content |-> <<>>]

\* yaml.load_all(content): a source is modelled by the units it parses to
T_MANIFEST == DictTyped(StrV(<<"manifest", "/", "samples">>))
T_TESTPLAN == DictTyped(StrV(<<"testplan">>))
T_BUCKET == DictTyped(StrV(<<"(no type)", "/", "x">>))
T_EMPTY == DictTyped(StrV(<<>>))
T_INT == DictTyped(IntV(5))

\* (path, unit) pairs documents are drawn from
DocKinds ==
  { <<P_MANIFEST, DictNoType>>, <<P_PLAN, NotADict>>, <<P_NOTES, DictNoType>>,
    <<P_PLAN, T_MANIFEST>>, <<P_PLAN, T_INT>>, <<P_PLAN, T_EMPTY>>,
    <<P_MANIFEST, T_BUCKET>>, <<P_NOTES, T_BUCKET>>, <<P_NOTES, T_TESTPLAN>> }

SeqsUpTo(S, n) == UNION { [1..k -> S] : k \in 0..n }

\* the tree from_files reads in the store's own specification
StoreTree ==
  { File(P_MANIFEST, <<DictNoType>>), File(P_PLAN, <<T_MANIFEST, NotADict>>),
    File(P_NOTES, <<DictNoType>>), Dir(P_DIR) }

\* only_files_in
only_files_in(tr, paths) ==
  { fname \in paths : \E e \in tr : e.path = fname /\ e.kind = "file" }

\* stream.read() of an existing file
ReadFile(tr, p) == (CHOOSE e \in tr : e.path = p).content

\* the orders a set can be iterated in
Orders(S) ==
  { o \in [1..Cardinality(S) -> S] : \A i, j \in 1..Cardinality(S) : o[i] = o[j] => i = j }

-----------------------------------------------------------------------------
(* IndexedDocs: the public operations *)

\* the Documents of one source: [Document(file_name, doc) for doc in yaml.load_all(content)]
DocsOf(file_name, content, first_id) ==
  [i \in 1..Len(content) |-> Document(first_id + i - 1, file_name, content[i])]

\* one add_documents call folded into a run acc = [kd, err, docs, next, moved]
Accumulate(acc, documents, res) ==
  [kd |-> res.kd,
   err |-> res.err,
   docs |-> acc.docs \o SubSeq(documents, 1, res.done),
   next |-> acc.next + res.done,
   moved |-> acc.moved + res.moved]

add_to(acc, documents, strct, r) ==
  Accumulate(acc, documents, add_documents(acc.kd, documents, strct, r))

\* IndexedDocs.add within a run: a run that has raised does nothing more
add(acc, content, file_name, strct, r) ==
  IF acc.err # "none" THEN acc
  ELSE add_to(acc, DocsOf(file_name, content, acc.next), strct, r)

\* IndexedDocs.from_strings: sources are <<description, content>> pairs
RECURSIVE from_strings(_, _, _, _)
from_strings(acc, sources, strct, r) ==
  IF sources = <<>> THEN acc
  ELSE from_strings(add(acc, Head(sources)[2], Head(sources)[1], strct, r),
                    Tail(sources), strct, r)

\* IndexedDocs.from_files, the files taken in the order `files`
RECURSIVE from_files(_, _, _, _, _)
from_files(acc, tr, files, strct, r) ==
  IF files = <<>> THEN acc
  ELSE from_files(add(acc, ReadFile(tr, Head(files)), abspath(Head(files)), strct, r),
                  tr, Tail(files), strct, r)

Start(kd, next) == [kd |-> kd, err |-> "none", docs |-> <<>>, next |-> next, moved |-> 0]

Finish(op, acc) ==
  /\ keyed_docs' = acc.kd
  /\ added' = added \o acc.docs
  /\ last' = [op |-> op, err |-> acc.err, moved |-> acc.moved]
  /\ UNCHANGED <<strict, resolver, tree, idx, sample, tag, run>>

Room == MaxDocs - Len(added)

AddDocuments ==
  \E batch \in SeqsUpTo(DocKinds, MaxBatch) :
    /\ Len(batch) <= Room
    /\ Finish("add_documents",
              add_to(Start(keyed_docs, Len(added) + 1),
                     [i \in 1..Len(batch) |->
                        Document(Len(added) + i, batch[i][1], batch[i][2])],
                     strict, resolver))

Add ==
  \E file_name \in {P_MANIFEST, P_PLAN, P_NOTES} :
    \E content \in SeqsUpTo(Objs, MaxBatch) :
      /\ Len(content) <= Room
      /\ \A i \in 1..Len(content) : <<file_name, content[i]>> \in DocKinds
      /\ Finish("add", add(Start(keyed_docs, Len(added) + 1), content, file_name,
                           strict, resolver))

FromStrings ==
  \E sources \in SeqsUpTo({ <<P_MANIFEST, <<DictNoType>>>>, <<P_PLAN, <<T_INT, NotADict>>>>,
                            <<P_NOTES, <<T_TESTPLAN>>>>, <<P_MANIFEST, <<T_BUCKET>>>> },
                          MaxSources) :
    /\ sources # <<>>
    /\ Len(sources) + 1 <= Room
    /\ Finish("from_strings",
              from_strings(Start(keyed_docs, Len(added) + 1), sources, strict, resolver))

FromFiles ==
  \E paths \in SUBSET {P_MANIFEST, P_PLAN, P_NOTES, P_DIR, P_MISSING} :
    /\ paths # {}
    /\ Cardinality(paths) <= MaxSources
    /\ Cardinality(paths) + 1 <= Room
    /\ \E files \in Orders(only_files_in(StoreTree, paths)) :
         Finish("from_files",
                from_files(Start(keyed_docs, Len(added) + 1), StoreTree, files,
                           strict, resolver))

ResolveUncategorized ==
  \E r \in {resolver} :
    Finish("resolve_uncategorized",
           Accumulate(Start(keyed_docs, Len(added) + 1), <<>>,
                      resolve_after([kd |-> keyed_docs, err |-> "none", done |-> 0],
                                    resolve_uncategorized(keyed_docs, r))))

Idle == [op |-> "none", err |-> "none", moved |-> 0]

InitStore ==
  /\ keyed_docs = <<>>
  /\ strict \in BOOLEAN
  /\ resolver \in Resolvers
  /\ added = <<>>
  /\ last = Idle
  /\ tree = {}
  /\ idx = Idle
  /\ sample = <<>>
  /\ tag = Idle
  /\ run = Idle

NextStore == AddDocuments \/ Add \/ FromStrings \/ FromFiles \/ ResolveUncategorized

SpecStore == InitStore /\ [][NextStore]_vars

-----------------------------------------------------------------------------
(* glob.glob over a tree of files *)

\* s.split(sep)
RECURSIVE SplitAll(_, _)
SplitAll(s, sep) ==
  IF IndexOf(s, sep) = 0 THEN <<s>>
  ELSE <<SubSeq(s, 1, IndexOf(s, sep) - 1)>>
         \o SplitAll(SubSeq(s, IndexOf(s, sep) + 1, Len(s)), sep)

\* glob.has_magic, for the wildcards in use
has_magic(component) ==
  \E i \in 1..Len(component) : component[i] \in {"*", "**"}

\* fnmatch of one path component against one pattern component
RECURSIVE fnmatch(_, _)
fnmatch(name, pat) ==
  IF pat = <<>> THEN name = <<>>
  ELSE IF Head(pat) \in {"*", "**"}
       THEN \E k \in 0..Len(name) : fnmatch(SubSeq(name, k + 1, Len(name)), Tail(pat))
       ELSE name # <<>> /\ Head(name) = Head(pat) /\ fnmatch(Tail(name), Tail(pat))

\* glob._ishidden
ishidden(name) == name # <<>> /\ Head(name) = "."

\* one component: literal names match themselves; wildcards skip hidden names
ComponentMatch(name, pat) ==
  IF has_magic(pat)
  THEN fnmatch(name, pat) /\ (ishidden(name) => ishidden(pat))
  ELSE name = pat

\* components of a path against components of a pattern; a "**" component
\* spans directories only when `recursive` is set, and is a plain "*" otherwise
RECURSIVE GlobMatch(_, _, _)
GlobMatch(pc, gc, recursive) ==
  IF gc = <<>> THEN pc = <<>>
  ELSE IF recursive /\ Head(gc) = <<"**">>
       THEN \/ Tail(gc) # <<>> /\ GlobMatch(pc, Tail(gc), recursive)
            \/ Tail(gc) = <<>> /\ Len(pc) = 1 /\ ~ishidden(Head(pc))
            \/ /\ Len(pc) > 1
               /\ ~ishidden(Head(pc))
               /\ GlobMatch(Tail(pc), gc, recursive)
       ELSE /\ pc # <<>>
            /\ ComponentMatch(Head(pc), Head(gc))
            /\ GlobMatch(Tail(pc), Tail(gc), recursive)

\* every path of the tree: its entries and the directories above them
PathsOf(tr) ==
  UNION { {e.path} \cup { SubSeq(e.path, 1, i - 1) :
                          i \in { j \in 1..Len(e.path) : e.path[j] = "/" } } : e \in tr }

\* glob.glob(pattern, recursive=recursive), as the set of matches
glob(tr, pattern, recursive) ==
  { q \in PathsOf(tr) : GlobMatch(SplitAll(q, "/"), SplitAll(pattern, "/"), recursive) }

-----------------------------------------------------------------------------
(* sampletester/inputs.py *)

IMPLICIT_PATTERN == <<"**", "/", "*", ".", "yaml">>

\* get_globbed
get_globbed(tr, file_patterns) ==
  UNION { glob(tr, pattern, FALSE) : pattern \in file_patterns }

\* create_indexed_docs, the files taken in the order `files`; ids from first_id on
create_indexed_docs(tr, files, first_id) ==
  from_files(Start(<<>>, first_id), tr, files, FALSE, "untyped_yaml_resolver")

\* the files from_files reads for a set of globbed paths
explicit_files(tr, file_patterns) == only_files_in(tr, get_globbed(tr, file_patterns))

implicit_files(tr) == only_files_in(tr, get_globbed(tr, {IMPLICIT_PATTERN}))

\* has_manifests / has_testplans, asked with the full schema value 'manifest/samples'
has_category_full_value(indexed, type_name) ==
  contains(indexed.kd, <<type_name \o <<"/", "samples">>>>)

\* has_manifests / has_testplans
has_category(indexed, type_name) == contains(indexed.kd, <<type_name>>)

\* the merge of one category, done whether or not the category was found
merge_category_always(kd, has, implicit_kd, type_name) ==
  add_documents(kd, of_type(implicit_kd, type_name), FALSE, "untyped_yaml_resolver").kd

\* if not has_X: indexed_explicit.add_documents(*indexed_implicit.of_type(X))
merge_category(kd, has, implicit_kd, type_name) ==
  IF ~has
  THEN add_documents(kd, of_type(implicit_kd, type_name), FALSE, "untyped_yaml_resolver").kd
  ELSE kd

\* the two merges, test plans first
merge_missing(explicit_kd, has_manifests, has_testplans, implicit_kd) ==
  merge_category(merge_category(explicit_kd, has_testplans, implicit_kd, TESTPLAN_TYPE),
                 has_manifests, implicit_kd, MANIFEST_TYPE)

\* index_docs from the explicit index on. The record keeps, beside the result,
\* the explicit index as it was before the merge and what the fallback scanned.
index_from(tr, file_patterns, explicit_kd, has_manifests, has_testplans, implicit_kd) ==
  IF has_manifests /\ has_testplans
  THEN [file_patterns |-> file_patterns, explicit |-> explicit_kd, fallback |-> FALSE,
        implicit |-> <<>>, implicit_files |-> {}, result |-> explicit_kd]
  ELSE [file_patterns |-> file_patterns, explicit |-> explicit_kd, fallback |-> TRUE,
        implicit |-> implicit_kd, implicit_files |-> implicit_files(tr),
        result |-> merge_missing(explicit_kd, has_manifests, has_testplans, implicit_kd)]

index_with(tr, file_patterns, iorder, indexed_explicit) ==
  index_from(tr, file_patterns, indexed_explicit.kd,
             has_category(indexed_explicit, MANIFEST_TYPE),
             has_category(indexed_explicit, TESTPLAN_TYPE),
             create_indexed_docs(tr, iorder, indexed_explicit.next).kd)

\* index_docs; eorder and iorder are the orders in which from_files iterates the
\* explicit and the implicit file sets
index_docs(tr, file_patterns, eorder, iorder) ==
  index_with(tr, file_patterns, iorder, create_indexed_docs(tr, eorder, 1))

\* The entries working trees are made of: YAML files in the working directory,
\* one level down and two levels down, typed and untyped, a directory named
\* like a YAML file, and a file that is no YAML file by its name.
TreeEntries ==
  { File(<<"m", ".", "manifest", ".", "yaml">>, <<DictNoType>>),
    File(<<"plan", ".", "yaml">>, <<T_TESTPLAN>>),
    File(<<"notes", ".", "txt">>, <<DictNoType>>),
    File(<<"a", "/", "t", ".", "yaml">>, <<DictNoType, T_TESTPLAN>>),
    File(<<"a", "/", "both", ".", "yaml">>, <<T_MANIFEST, NotADict>>),
    File(<<"a", "/", "m2", ".", "manifest", ".", "yaml">>, <<DictNoType>>),
    Dir(<<"a", "/", "d", ".", "yaml">>),
    File(<<"a", "/", "b", "/", "deep", ".", "yaml">>, <<T_TESTPLAN>>) }

\* the patterns index_docs is called with: any path by its name, and two wildcards
Patterns ==
  { e.path : e \in TreeEntries } \cup { <<"*", ".", "yaml">>, <<"a", "/", "*">> }

\* index_docs runs once per run of the tester
IndexDocs ==
  \E file_patterns \in SUBSET Patterns :
    /\ idx = Idle
    /\ Cardinality(file_patterns) <= MaxPatterns
    /\ \E eorder \in Orders(explicit_files(tree, file_patterns)) :
         \E iorder \in Orders(implicit_files(tree)) :
           idx' = index_docs(tree, file_patterns, eorder, iorder)
    /\ UNCHANGED <<keyed_docs, strict, resolver, added, last, tree, sample, tag, run>>

InitIndex ==
  /\ keyed_docs = <<>>
  /\ strict = FALSE
  /\ resolver = "untyped_yaml_resolver"
  /\ added = <<>>
  /\ last = Idle
  /\ tree \in { tr \in SUBSET TreeEntries : Cardinality(tr) <= MaxTree }
  /\ idx = Idle
  /\ sample = <<>>
  /\ tag = Idle
  /\ run = Idle

NextIndex == IndexDocs

SpecIndex == InitIndex /\ [][NextIndex]_vars

-----------------------------------------------------------------------------
(* Claims about the store *)

\* the places <<key, index>> of the store that hold document d
PlacesOf(kd, d) ==
  { pl \in UNION { {<<k, j>> : j \in 1..Len(kd[k])} : k \in DOMAIN kd } :
      kd[pl[1]][pl[2]] = d }

\* the typed part of a store: every list but the '(no type)' one
Typed(kd) == [k \in DOMAIN kd \ {SCHEMA_TYPE_ABSENT} |-> kd[k]]

\* C1: after any sequence of store operations, with or without a resolver, every
\* document that was added is held in exactly one per-type list ('(no type)'
\* included), at exactly one place: none is lost, none is under two keys, and
\* the lists hold nothing else.
C1_ExactlyOneList ==
  /\ \A i \in 1..Len(added) : Cardinality(PlacesOf(keyed_docs, added[i])) = 1
  /\ \A k \in DOMAIN keyed_docs : \A j \in 1..Len(keyed_docs[k]) :
       \E i \in 1..Len(added) : keyed_docs[k][j] = added[i]

\* C1 witness: three documents are in, the last operation's resolution moved
\* one out of '(no type)', another one stayed there, and two typed lists exist.
C1_Witness ==
  /\ Len(added) >= 3
  /\ last.moved >= 1
  /\ of_type(keyed_docs, SCHEMA_TYPE_ABSENT) # <<>>
  /\ Cardinality(DOMAIN Typed(keyed_docs)) >= 2

\* C2: on every reachable store, resolve_uncategorized called twice in a row
\* leaves the same store as called once (same documents, same keys, same
\* order), and on a store whose '(no type)' list is empty it changes no typed list.
C2_ResolveIdempotent ==
  LET once == resolve_uncategorized(keyed_docs, resolver)
      twice == resolve_uncategorized(once, resolver)
  IN /\ twice = once
     /\ of_type(keyed_docs, SCHEMA_TYPE_ABSENT) = <<>> => Typed(once) = Typed(keyed_docs)

\* C2 witness: a direct resolve_uncategorized call has just moved a document
\* and left another one unclassified (the state the second call starts from).
C2_Witness ==
  /\ last.op = "resolve_uncategorized"
  /\ last.moved >= 1
  /\ of_type(keyed_docs, SCHEMA_TYPE_ABSENT) # <<>>

-----------------------------------------------------------------------------
(* Claims about index_docs *)

\* the documents a store holds, as a set
DocsIn(kd) == UNION { { kd[k][j] : j \in 1..Len(kd[k]) } : k \in DOMAIN kd }

\* the documents of a list, as a set
DocSet(list) == { list[j] : j \in 1..Len(list) }

\* the paths Documents carry for the files the explicit patterns matched
ExplicitPaths == { abspath(f) : f \in explicit_files(tree, idx.file_patterns) }

ExplicitHas(type_name) == of_type(idx.explicit, type_name) # <<>>

\* C3: when the explicitly matched files yield a manifest and a test plan,
\* index_docs returns the explicit index as it is: no fallback scan, and every
\* document of the result comes from an explicitly matched file.
C3_ExplicitSufficient ==
  (idx # Idle /\ ExplicitHas(MANIFEST_TYPE) /\ ExplicitHas(TESTPLAN_TYPE)) =>
    /\ idx.result = idx.explicit
    /\ ~idx.fallback
    /\ \A d \in DocsIn(idx.result) : d.path \in ExplicitPaths

\* C3 witness: both categories were found explicitly while the working tree holds
\* further YAML files, one level down, that the explicit patterns did not match.
C3_Witness ==
  /\ idx # Idle
  /\ ExplicitHas(MANIFEST_TYPE) /\ ExplicitHas(TESTPLAN_TYPE)
  /\ implicit_files(tree) \ explicit_files(tree, idx.file_patterns) # {}
  /\ DocsIn(idx.result) # {}

\* the category the explicit index lacks when it lacks exactly one
Lacks(missing, found) == ~ExplicitHas(missing) /\ ExplicitHas(found)

FoundUntouched(missing, found) ==
  Lacks(missing, found) =>
    /\ \A k \in (DOMAIN idx.result \cup DOMAIN idx.explicit) \ {missing} :
         of_type(idx.result, k) = of_type(idx.explicit, k)
    /\ DocSet(of_type(idx.result, missing)) = DocSet(of_type(idx.implicit, missing))

\* C4: when the explicit index lacks exactly one of manifest and testplan, the
\* merge adds the fallback's documents of the missing category and nothing
\* else: the list of the category found explicitly (and every other list) is
\* the same before and after, same documents in the same order.
C4_FoundCategoryUntouched ==
  idx # Idle =>
    /\ FoundUntouched(TESTPLAN_TYPE, MANIFEST_TYPE)
    /\ FoundUntouched(MANIFEST_TYPE, TESTPLAN_TYPE)

\* C4 witness: manifests were found explicitly and test plans were not; the
\* fallback index holds manifests of its own, and one of the test plans merged
\* in is untyped, classified again by its file name on insertion.
C4_Witness ==
  /\ idx # Idle
  /\ Lacks(TESTPLAN_TYPE, MANIFEST_TYPE)
  /\ DocSet(of_type(idx.implicit, MANIFEST_TYPE)) \ DocsIn(idx.explicit) # {}
  /\ \E d \in DocSet(of_type(idx.result, TESTPLAN_TYPE)) : ~d.obj.has_type
  /\ \E d \in DocSet(of_type(idx.result, TESTPLAN_TYPE)) : d.obj.has_type

\* every regular file of the tree named *.yaml, at any depth
YamlFiles(tr) ==
  { e.path : e \in { x \in tr : x.kind = "file" /\ splitext(x.path)[2] = EXT_YAML } }

\* C5: when index_docs falls back, the fallback index is built from every
\* regular *.yaml file of the working tree, at any depth.
C5_FallbackScansWholeTree ==
  (idx # Idle /\ idx.fallback) => idx.implicit_files = YamlFiles(tree)

-----------------------------------------------------------------------------
(* gen_manifest/gen_manifest.py: get_region_tag *)

\* A sample's text is a sequence of pieces: a [START id] marker, an [END id]
\* marker, or text that neither regular expression matches
Start_(id) == [kind |-> "START", id |-> id]
End_(id) == [kind |-> "END", id |-> id]
Text_ == [kind |-> "TEXT", id |-> <<>>]

\* ids that [a-zA-Z0-9_]* matches, the empty one included
RegionIds == { <<"a">>, <<"b">>, <<>>, <<"a", "_", "core">>, <<"cor">> }

Pieces == { Start_(id) : id \in RegionIds } \cup { End_(id) : id \in RegionIds } \cup {Text_}

\* re.findall(exp, sample_text) for the START or the END expression
RECURSIVE findall(_, _)
findall(kind, sample_text) ==
  IF sample_text = <<>> THEN <<>>
  ELSE (IF Head(sample_text).kind = kind THEN <<Head(sample_text).id>> ELSE <<>>)
         \o findall(kind, Tail(sample_text))

\* 'core' in srt
has_core(srt) == \E i \in 1..Len(srt) : srt[i] = "core"

\* srt in end_region_tags
in_list(x, list) == \E i \in 1..Len(list) : list[i] = x

\* the loop over start_region_tags that skips no 'core' id
RECURSIVE collect_region_tags_with_core(_, _)
collect_region_tags_with_core(start_region_tags, end_region_tags) ==
  IF start_region_tags = <<>> THEN <<>>
  ELSE (IF in_list(Head(start_region_tags), end_region_tags)
        THEN <<Head(start_region_tags)>>
        ELSE <<>>)
         \o collect_region_tags_with_core(Tail(start_region_tags), end_region_tags)

\* the loop over start_region_tags
RECURSIVE collect_region_tags(_, _)
collect_region_tags(start_region_tags, end_region_tags) ==
  IF start_region_tags = <<>> THEN <<>>
  ELSE (IF ~has_core(Head(start_region_tags))
           /\ in_list(Head(start_region_tags), end_region_tags)
        THEN <<Head(start_region_tags)>>
        ELSE <<>>)
         \o collect_region_tags(Tail(start_region_tags), end_region_tags)

\* the end of get_region_tag: exactly one region tag, or RegionTagError
single_region_tag(region_tags) ==
  IF region_tags = <<>> THEN [err |-> "RegionTagError", value |-> <<>>, opened |-> TRUE]
  ELSE IF Len(region_tags) > 1
       THEN [err |-> "RegionTagError", value |-> <<>>, opened |-> TRUE]
       ELSE [err |-> "none", value |-> region_tags[1], opened |-> TRUE]

\* get_region_tag once the file is read
region_tag_of(sample_text) ==
  single_region_tag(collect_region_tags(findall("START", sample_text),
                                        findall("END", sample_text)))

\* the path below the working directory
relpath(p) ==
  IF Len(p) >= Len(CWD) /\ SubSeq(p, 1, Len(CWD)) = CWD
  THEN SubSeq(p, Len(CWD) + 1, Len(p))
  ELSE p

\* os.path.isfile
isfile(tr, p) == \E e \in tr : e.path = relpath(p) /\ e.kind = "file"

\* get_region_tag
get_region_tag(tr, sample_file_path) ==
  IF ~isfile(tr, sample_file_path)
  THEN [err |-> "NotRegularFileError", value |-> <<>>, opened |-> FALSE]
  ELSE region_tag_of(ReadFile(tr, relpath(sample_file_path)))

P_SAMPLE == <<"s", ".", "py">>

\* get_region_tag called on the sample file
GetRegionTag ==
  /\ tag' = [call |-> "get_region_tag",
             result |-> get_region_tag({sample}, abspath(P_SAMPLE))]
  /\ UNCHANGED <<keyed_docs, strict, resolver, added, last, tree, idx, sample, run>>

InitTag ==
  /\ keyed_docs = <<>>
  /\ strict = FALSE
  /\ resolver = "None"
  /\ added = <<>>
  /\ last = Idle
  /\ tree = {}
  /\ idx = Idle
  /\ sample \in { File(P_SAMPLE, text) : text \in SeqsUpTo(Pieces, MaxMarkers) }
                  \cup { Dir(P_SAMPLE) }
  /\ tag = Idle
  /\ run = Idle

NextTag == GetRegionTag

SpecTag == InitTag /\ [][NextTag]_vars

-----------------------------------------------------------------------------
(* Claims about get_region_tag *)

\* the START markers of a text that count: id without 'core', and some END
\* marker of the text carries the same id
Qualifying(text) ==
  { i \in 1..Len(text) :
      /\ text[i].kind = "START"
      /\ ~has_core(text[i].id)
      /\ \E j \in 1..Len(text) : text[j].kind = "END" /\ text[j].id = text[i].id }

\* C6: for a regular sample file, get_region_tag returns the id of the one
\* START marker that has an END marker of the same id and no 'core' in its id,
\* when there is exactly one such marker; with none, or with two or more, it
\* raises RegionTagError. Ids containing 'core' and START markers without an
\* END marker never count.
C6_ExactlyOneRegionTag ==
  (tag # Idle /\ sample.kind = "file") =>
    LET q == Qualifying(sample.content)
    IN IF Cardinality(q) = 1
       THEN /\ tag.result.err = "none"
            /\ \A i \in q : tag.result.value = sample.content[i].id
       ELSE tag.result.err = "RegionTagError"

\* C6 witness: an id is returned from a text that also holds a 'core' START
\* marker with its END marker, each of which would count but for the rule.
C6_Witness ==
  /\ tag # Idle
  /\ sample.kind = "file"
  /\ tag.result.err = "none"
  /\ \E i, j \in 1..Len(sample.content) :
       /\ sample.content[i].kind = "START" /\ has_core(sample.content[i].id)
       /\ sample.content[j].kind = "END" /\ sample.content[j].id = sample.content[i].id

-----------------------------------------------------------------------------
(* gen_manifest/gen_manifest.py: helpers *)

ALL_LANGS ==
  { <<"python">>, <<"java">>, <<"csharp">>, <<"nodejs">>, <<"ruby">>, <<"php">>, <<"go">> }

BASEPATH_KEY == <<"basepath">>
BASEPATH_DEFAULT == <<".">>
BIN_KEY == <<"bin">>
INVOCATION_KEY == <<"invocation">>

\* the names the emitters forbid: 'sample', 'path'
FORBIDDEN == << <<"sample">>, <<"path">> >>

\* os.getcwd()
getcwd == SubSeq(CWD, 1, Len(CWD) - 1)

\* os.path.join(a, b)
join(a, b) ==
  IF b # <<>> /\ Head(b) = "/" THEN b
  ELSE IF a = <<>> \/ a[Len(a)] = "/" THEN a \o b
       ELSE a \o <<"/">> \o b

\* escape: text.replace("'", "''")
RECURSIVE escape(_)
escape(text) ==
  IF text = <<>> THEN <<>>
  ELSE (IF Head(text) = "'" THEN <<"'", "'">> ELSE <<Head(text)>>) \o escape(Tail(text))

\* forbid_names that looks for the first forbidden name only
forbid_names_first_only(tags, forbidden_names) ==
  SelectSeq(tags, LAMBDA t : t[1] = forbidden_names[1])

\* forbid_names: the list `found`; TagNameError is raised when it is not empty
forbid_names(tags, forbidden_names) ==
  SelectSeq(tags, LAMBDA t : in_list(t[1], forbidden_names))

\* whether some tag carries the name
has_tag(tags, name) == \E i \in 1..Len(tags) : tags[i][1] = name

\* the value `basepath` ends with in the tag loops: the last basepath tag's, else None
RECURSIVE last_basepath(_)
last_basepath(tags) ==
  IF tags = <<>> THEN <<>>
  ELSE IF tags[Len(tags)][1] = BASEPATH_KEY THEN tags[Len(tags)][2]
       ELSE last_basepath(SubSeq(tags, 1, Len(tags) - 1))

\* if not basepath: basepath = BASEPATH_DEFAULT
basepath_or_default(basepath) == IF basepath = <<>> THEN BASEPATH_DEFAULT ELSE basepath

\* OrderedDict.__setitem__: a known key keeps its place and takes the new value
dict_set(d, k, v) ==
  IF \E i \in 1..Len(d) : d[i][1] = k
  THEN [i \in 1..Len(d) |-> IF d[i][1] = k THEN <<k, v>> ELSE d[i]]
  ELSE Append(d, <<k, v>>)

\* the sample files of the generator's working directory, in directory order
GenListing ==
  << File(<<"e", ".", "py">>, <<Start_(<<"b">>), Text_, End_(<<"b">>)>>),
     File(<<"a", ".", "py">>, <<Start_(<<"a">>), End_(<<"a">>)>>),
     File(<<"bad", ".", "txt">>, <<Start_(<<"a">>)>>),
     File(<<"c", ".", "yaml">>, <<Text_>>),
     Dir(<<"d">>) >>

GenTree == { GenListing[i] : i \in 1..Len(GenListing) }

\* glob(pattern, recursive=True), as the list of matches in directory order
glob_list(pattern) ==
  SelectSeq([i \in 1..Len(GenListing) |-> GenListing[i].path],
            LAMBDA q : GlobMatch(SplitAll(q, "/"), SplitAll(pattern, "/"), TRUE))

EXT_YML == <<".", "yml">>

\* [os.path.splitext(path) for path in matches]
split_matches(matches) == [i \in 1..Len(matches) |-> splitext(matches[i])]

\* [root+ext for root, ext in ... if ext != ".yaml" and ext != ".yml"]
non_yaml(split) ==
  [i \in 1..Len(split) |-> split[i][1] \o split[i][2]]

\* glob_non_yaml
glob_non_yaml(pattern) ==
  non_yaml(SelectSeq(split_matches(glob_list(pattern)),
                     LAMBDA re : re[2] # EXT_YAML /\ re[2] # EXT_YML))

-----------------------------------------------------------------------------
(* gen_manifest/gen_manifest.py: the loops over globs and samples *)

\* A walk is what the loops `for s in sample_globs: for sample in
\* glob_non_yaml(s)` have done so far: the error raised, the items built, the
\* patterns expanded and the sample files opened.
NoWalk == [err |-> "none", items |-> <<>>, globbed |-> <<>>, read |-> <<>>]

with_sample(acc, sample_path, got) ==
  [err |-> got.err,
   items |-> IF got.err = "none"
             THEN Append(acc.items, [path |-> sample_path, sample |-> got.value])
             ELSE acc.items,
   globbed |-> acc.globbed,
   read |-> IF got.opened THEN Append(acc.read, sample_path) ELSE acc.read]

RECURSIVE walk_samples(_, _)
walk_samples(samples, acc) ==
  IF samples = <<>> \/ acc.err # "none" THEN acc
  ELSE walk_samples(Tail(samples),
                    with_sample(acc, Head(samples),
                                get_region_tag(GenTree, join(getcwd, Head(samples)))))

RECURSIVE walk_globs(_, _)
walk_globs(sample_globs, acc) ==
  IF sample_globs = <<>> \/ acc.err # "none" THEN acc
  ELSE walk_globs(Tail(sample_globs),
                  walk_samples(glob_non_yaml(Head(sample_globs)),
                               [acc EXCEPT !.globbed = Append(@, Head(sample_globs))]))

-----------------------------------------------------------------------------
(* gen_manifest/gen_manifest.py: the emitters *)

\* A line of manifest text: f"{indent}{key}: '{value}'" when quoted, the bare
\* text `key` (or "key: value" as the YAML writer prints it) otherwise
KV(indent, key, value) == [indent |-> indent, key |-> key, value |-> value, quoted |-> TRUE]
Plain(indent, key, value) ==
  [indent |-> indent, key |-> key, value |-> value, quoted |-> FALSE]
Raw(text) == Plain("", text, <<>>)

\* the two sys.stderr.write calls of the deprecation warning
DEPRECATION ==
  << <<"# For invoking samples via sample-tester, the use of \"bin\" is deprecated">>,
     <<"# See https://sample-tester.readthedocs.io/">> >>

\* an emitter's outcome: the exception raised or the text returned, what was
\* written to stderr, and the patterns expanded and files opened on the way
Raised(err, w) ==
  [err |-> err, lines |-> <<>>, stderr |-> <<>>, globbed |-> w.globbed, read |-> w.read]

Returned(lines, warn, w) ==
  [err |-> "none", lines |-> lines, stderr |-> IF warn THEN DEPRECATION ELSE <<>>,
   globbed |-> w.globbed, read |-> w.read]

V3_HEADER == << Raw(<<"type: manifest/samples">>), Raw(<<"schema_version: 3">>) >>

\* entry_content folded into the entry: every tag but basepath, by name
RECURSIVE update_entry(_, _)
update_entry(entry, tags) ==
  IF tags = <<>> THEN entry
  ELSE update_entry(IF Head(tags)[1] = BASEPATH_KEY THEN entry
                    ELSE dict_set(entry, Head(tags)[1], Head(tags)[2]),
                    Tail(tags))

\* the lines of one flat entry: '- ' before the first, '  ' before the others
entry_lines(entry) ==
  [i \in 1..Len(entry) |->
     KV(IF i = 1 THEN "- " ELSE "  ", entry[i][1], escape(entry[i][2]))]

RECURSIVE flat_lines(_, _, _)
flat_lines(items, tags, basepath) ==
  IF items = <<>> THEN <<>>
  ELSE entry_lines(update_entry(<< <<<<"path">>, join(basepath, Head(items).path)>>,
                                   <<<<"sample">>, Head(items).sample>> >>, tags))
         \o flat_lines(Tail(items), tags, basepath)

\* create_flat_manifest_v3 after the loops: have_bin and have_invocation are
\* assigned in the loop over the samples, once per sample
flat_manifest(tags, w) ==
  IF w.err # "none" THEN Raised(w.err, w)
  ELSE Returned(V3_HEADER \o <<Raw(<<"samples:">>)>>
                  \o flat_lines(w.items, tags, basepath_or_default(last_basepath(tags))),
                w.items # <<>> /\ has_tag(tags, BIN_KEY) /\ ~has_tag(tags, INVOCATION_KEY),
                w)

\* create_flat_manifest_v3
create_flat_manifest_v3(tags, sample_globs) ==
  IF forbid_names(tags, FORBIDDEN) # <<>> THEN Raised("TagNameError", NoWalk)
  ELSE flat_manifest(tags, walk_globs(sample_globs, NoWalk))

\* the lines of the shared block of a factored manifest
base_lines(tags) ==
  [i \in 1..Len(tags) |-> KV("  ", tags[i][1], escape(tags[i][2]))]
    \o (IF has_tag(tags, BASEPATH_KEY) THEN <<>>
        ELSE <<KV("  ", BASEPATH_KEY, escape(BASEPATH_DEFAULT))>>)

RECURSIVE factored_lines(_)
factored_lines(items) ==
  IF items = <<>> THEN <<>>
  ELSE << Raw(<<"- <<: *common">>),
          KV("  ", <<"path">>, <<"{basepath}", "/">> \o escape(Head(items).path)),
          KV("  ", <<"sample">>, Head(items).sample) >>
         \o factored_lines(Tail(items))

\* create_factored_manifest_v3 after the loops
factored_manifest(tags, w) ==
  IF w.err # "none" THEN Raised(w.err, w)
  ELSE Returned(V3_HEADER \o <<Raw(<<"base: &common">>)>> \o base_lines(tags)
                  \o <<Raw(<<"samples:">>)>> \o factored_lines(w.items),
                has_tag(tags, BIN_KEY) /\ ~has_tag(tags, INVOCATION_KEY),
                w)

\* create_factored_manifest_v3
create_factored_manifest_v3(tags, sample_globs) ==
  IF forbid_names(tags, FORBIDDEN) # <<>> THEN Raised("TagNameError", NoWalk)
  ELSE factored_manifest(tags, walk_globs(sample_globs, NoWalk))

\* emit_manifest_v3
emit_manifest_v3(tags, sample_globs, flat) ==
  IF flat THEN create_flat_manifest_v3(tags, sample_globs)
  ELSE create_factored_manifest_v3(tags, sample_globs)

\* the tag loop of create_manifest_v2: env is checked and renamed, basepath kept out
RECURSIVE v2_environment(_, _)
v2_environment(tags, environment) ==
  IF tags = <<>> THEN [err |-> "none", environment |-> environment]
  ELSE IF Head(tags)[1] = BASEPATH_KEY THEN v2_environment(Tail(tags), environment)
  ELSE IF Head(tags)[1] = <<"env">>
       THEN IF Head(tags)[2] \notin ALL_LANGS
            THEN [err |-> "UnrecognizedLanguageError", environment |-> environment]
            ELSE v2_environment(Tail(tags),
                                dict_set(environment, <<"environment">>, Head(tags)[2]))
       ELSE v2_environment(Tail(tags), dict_set(environment, Head(tags)[1], Head(tags)[2]))

RECURSIVE v2_item_lines(_)
v2_item_lines(items) ==
  IF items = <<>> THEN <<>>
  ELSE << Plain("  - ", <<"path">>, Head(items).path),
          Plain("    ", <<"sample">>, Head(items).sample) >>
         \o v2_item_lines(Tail(items))

\* dump(manifest): the YAML writer's text for the v2 manifest
dump(environment, items) ==
  << Plain("", <<"version">>, <<"2">>), Raw(<<"sets:">>) >>
    \o [i \in 1..Len(environment) |->
          Plain(IF i = 1 THEN "- " ELSE "  ", environment[i][1], environment[i][2])]
    \o (IF items = <<>> THEN << Raw(<<"  __items__: []">>) >>
        ELSE << Raw(<<"  __items__:">>) >> \o v2_item_lines(items))

\* create_manifest_v2 from path_sample_pairs_v2 on, and dump
v2_manifest(tags, environment, w) ==
  IF w.err # "none" THEN Raised(w.err, w)
  ELSE Returned(dump(dict_set(environment, <<"path">>,
                              basepath_or_default(last_basepath(tags)) \o <<"/">>),
                     w.items),
                FALSE, w)

\* create_manifest_v2
create_manifest_v2(tags, sample_globs, env) ==
  IF env.err # "none" THEN Raised(env.err, NoWalk)
  ELSE v2_manifest(tags, env.environment, walk_globs(sample_globs, NoWalk))

\* emit_manifest_v2
emit_manifest_v2(tags, sample_globs, flat) ==
  IF forbid_names(tags, FORBIDDEN) # <<>> THEN Raised("TagNameError", NoWalk)
  ELSE create_manifest_v2(tags, sample_globs, v2_environment(tags, <<>>))

\* registered_emitters[schema_version](tags, sample_files, flat)
registered_emitters(schema_version, tags, sample_files, flat) ==
  IF schema_version = "2" THEN emit_manifest_v2(tags, sample_files, flat)
  ELSE emit_manifest_v3(tags, sample_files, flat)

-----------------------------------------------------------------------------
(* gen_manifest/gen_manifest.py: the command line *)

TAG_PREFIX == "--"

\* the lexemes of the file arguments, in the order of their characters
LexemeOrder == << "*", ".", "a", "bad", "c", "d", "py", "txt" >>

rank(x) == IndexOf(LexemeOrder, x)

\* str.__lt__ on two file arguments
RECURSIVE str_lt(_, _)
str_lt(a, b) ==
  IF b = <<>> THEN FALSE
  ELSE IF a = <<>> THEN TRUE
  ELSE IF Head(a) = Head(b) THEN str_lt(Tail(a), Tail(b))
  ELSE rank(Head(a)) < rank(Head(b))

\* one step of list.sort: x goes before the first element greater than it
RECURSIVE insert_sorted(_, _)
insert_sorted(sorted, x) ==
  IF sorted = <<>> THEN <<x>>
  ELSE IF str_lt(x, Head(sorted)) THEN <<x>> \o sorted
  ELSE <<Head(sorted)>> \o insert_sorted(Tail(sorted), x)

\* files.sort()
RECURSIVE sort(_)
sort(files) ==
  IF files = <<>> THEN <<>>
  ELSE insert_sorted(sort(SubSeq(files, 1, Len(files) - 1)), files[Len(files)])

\* the tag split at its last '=' (rsplit) instead of its first
tag_of_rsplit(tag_text) ==
  IF LastIndexOf(tag_text, "=") = 0 THEN <<tag_text, <<>>>>
  ELSE <<SubSeq(tag_text, 1, LastIndexOf(tag_text, "=") - 1),
         SubSeq(tag_text, LastIndexOf(tag_text, "=") + 1, Len(tag_text))>>

\* current[tag_prefix_len:].split('=', 1) as (tag_key, tag_value)
tag_of(tag_text) ==
  IF IndexOf(tag_text, "=") = 0 THEN <<tag_text, <<>>>>
  ELSE <<SplitHead(tag_text, "="),
         SubSeq(tag_text, IndexOf(tag_text, "=") + 1, Len(tag_text))>>

\* the loop of parse_files_and_tags
RECURSIVE parse_loop(_, _)
parse_loop(params, acc) ==
  IF params = <<>> THEN acc
  ELSE parse_loop(Tail(params),
                  IF Head(params) # <<>> /\ Head(Head(params)) = TAG_PREFIX
                  THEN [acc EXCEPT !.tags = Append(@, tag_of(Tail(Head(params))))]
                  ELSE [acc EXCEPT !.files = Append(@, Head(params))])

sorted_files(parsed) == [files |-> sort(parsed.files), tags |-> parsed.tags]

\* parse_files_and_tags
parse_files_and_tags(params) ==
  sorted_files(parse_loop(params, [files |-> <<>>, tags |-> <<>>]))

\* the classes derived from GenManifestError
GenManifestError ==
  { "TagNameError", "RegionTagError", "NotRegularFileError", "UnrecognizedLanguageError" }

Unopened == [opened |-> FALSE, text |-> <<>>]

\* main's try block that opens the output file before the manifest is generated
deliver_opening_first(output, parsed, emitted) ==
  [tags |-> parsed.tags, sample_files |-> parsed.files, err |-> emitted.err,
   globbed |-> emitted.globbed, read |-> emitted.read, stderr |-> emitted.stderr,
   out_file |-> IF output # "-" THEN [opened |-> TRUE, text |-> emitted.lines]
                ELSE Unopened,
   stdout |-> IF emitted.err # "none" THEN <<[kind |-> "ERROR", text |-> emitted.err]>>
              ELSE IF output # "-" THEN <<>>
              ELSE <<[kind |-> "manifest", text |-> emitted.lines]>>,
   exit_code |-> IF emitted.err # "none" THEN 2 ELSE 0]

\* main from the emitter's return on: the manifest goes to the output file or to
\* stdout; a GenManifestError is printed and the process exits with 2
deliver(output, parsed, emitted) ==
  [tags |-> parsed.tags, sample_files |-> parsed.files, err |-> emitted.err,
   globbed |-> emitted.globbed, read |-> emitted.read, stderr |-> emitted.stderr,
   out_file |-> IF emitted.err = "none" /\ output # "-"
                THEN [opened |-> TRUE, text |-> emitted.lines]
                ELSE Unopened,
   stdout |-> IF emitted.err # "none" THEN <<[kind |-> "ERROR", text |-> emitted.err]>>
              ELSE IF output # "-" THEN <<>>
              ELSE <<[kind |-> "manifest", text |-> emitted.lines]>>,
   exit_code |-> IF emitted.err # "none" THEN 2 ELSE 0]

emit_parsed(schema_version, output, flat, parsed) ==
  deliver(output, parsed,
          registered_emitters(schema_version, parsed.tags, parsed.files, flat))

\* main
main(schema_version, output, flat, files_and_tags) ==
  emit_parsed(schema_version, output, flat, parse_files_and_tags(files_and_tags))

\* the command-line tokens the generator is run with
Tokens ==
  { <<"--", "bin", "=", "py", "'", "3">>, <<"--", "invocation", "=", "run">>,
    <<"--", "path", "=", "z">>, <<"--", "sample">>,
    <<"--", "env", "=", "java">>, <<"--", "env", "=", "cobol">>,
    <<"--", "basepath", "=", "base">>, <<"--", "name", "=", "a", "=", "b">>,
    <<"a", ".", "py">>, <<"*", ".", "py">>, <<"bad", ".", "txt">>, <<"d">>,
    <<"c", ".", "*">> }

\* the generator run once from the command line
Main ==
  /\ run = Idle
  /\ \E schema_version \in {"2", "3"}, output \in {"-", "out.yaml"}, flat \in BOOLEAN,
        files_and_tags \in SeqsUpTo(Tokens, MaxTokens) :
       run' = [call |-> [schema_version |-> schema_version, output |-> output,
                         flat |-> flat, files_and_tags |-> files_and_tags],
               result |-> main(schema_version, output, flat, files_and_tags)]
  /\ UNCHANGED <<keyed_docs, strict, resolver, added, last, tree, idx, sample, tag>>

InitGen ==
  /\ keyed_docs = <<>>
  /\ strict = FALSE
  /\ resolver = "None"
  /\ added = <<>>
  /\ last = Idle
  /\ tree = GenTree
  /\ idx = Idle
  /\ sample = <<>>
  /\ tag = Idle
  /\ run = Idle

NextGen == Main

SpecGen == InitGen /\ [][NextGen]_vars

-----------------------------------------------------------------------------
(* Properties of the manifest generator *)

Ran == run # Idle

\* whether the tag list handed to the emitter holds a reserved name
HasReservedTag(tags) ==
  \E i \in 1..Len(tags) : tags[i][1] \in { <<"sample">>, <<"path">> }

\* C7: whichever emitter is chosen, a tag list with a tag named 'sample' or
\* 'path' ends in TagNameError with no glob pattern expanded and no sample
\* file opened, whatever else is wrong with the input.
C7_ReservedNameFailsFirst ==
  (Ran /\ HasReservedTag(run.result.tags))
    => /\ run.result.err = "TagNameError"
       /\ run.result.globbed = <<>>
       /\ run.result.read = <<>>

\* a reserved name together with an unknown v2 language and a directory as sample
C7_Witness ==
  /\ Ran
  /\ run.call.schema_version = "2"
  /\ HasReservedTag(run.result.tags)
  /\ has_tag(run.result.tags, <<"env">>)
  /\ \E i \in 1..Len(run.result.tags) :
       run.result.tags[i][1] = <<"env">> /\ run.result.tags[i][2] \notin ALL_LANGS
  /\ in_list(<<"d">>, run.result.sample_files)
  /\ run.result.err = "TagNameError"

\* C8: when generation fails with a GenManifestError, the output file is not
\* opened, no manifest text reaches the output file or stdout, the error is
\* printed and the exit code is 2.
C8_NoPartialManifest ==
  (Ran /\ run.result.err \in GenManifestError)
    => /\ ~run.result.out_file.opened
       /\ run.result.out_file.text = <<>>
       /\ run.result.stdout = <<[kind |-> "ERROR", text |-> run.result.err]>>
       /\ run.result.exit_code = 2

\* the error is met at the third sample file, with an output file named
C8_Witness ==
  /\ Ran
  /\ run.call.output # "-"
  /\ run.result.err = "RegionTagError"
  /\ Len(run.result.read) = 3
  /\ run.result.exit_code = 2

\* whether a line of the manifest carries the deprecation diagnostic
IsDiagnostic(line) == \E i \in 1..Len(DEPRECATION) : line.key = DEPRECATION[i]

\* C9: on every manifest returned, by any emitter and for any set of matched
\* samples, the deprecation diagnostic is written to stderr exactly when 'bin'
\* is given without 'invocation', and it is never a line of the manifest.
C9_DeprecationDiagnostic ==
  (Ran /\ run.result.err = "none")
    => /\ run.result.stderr # <<>>
            <=> (has_tag(run.result.tags, BIN_KEY)
                   /\ ~has_tag(run.result.tags, INVOCATION_KEY))
       /\ \A i \in 1..Len(run.result.out_file.text) :
            ~IsDiagnostic(run.result.out_file.text[i])
       /\ \A k \in 1..Len(run.result.stdout) :
            \A i \in 1..Len(run.result.stdout[k].text) :
              ~IsDiagnostic(run.result.stdout[k].text[i])

\* the manifest text main delivered
Delivered ==
  IF run.call.output # "-" THEN run.result.out_file.text
  ELSE run.result.stdout[1].text

\* the entries of a flat manifest, read back from its lines
FlatEntries(lines) ==
  [k \in 1..Len(SelectSeq(lines, LAMBDA l : l.indent = "- ")) |->
     LET i == CHOOSE i \in 1..Len(lines) :
                /\ lines[i].indent = "- "
                /\ Cardinality({j \in 1..i : lines[j].indent = "- "}) = k
     IN [path |-> lines[i].value, sample |-> lines[i + 1].value]]

\* the sample files the patterns match
Matched(sample_globs) ==
  UNION { { glob_non_yaml(sample_globs[g])[i] :
              i \in 1..Len(glob_non_yaml(sample_globs[g])) } :
          g \in 1..Len(sample_globs) }

\* C10: a flat v3 manifest for patterns matching N sample files has exactly N
\* entries with pairwise distinct paths, each with the region tag of its file.
C10_FlatOneEntryPerFile ==
  (Ran /\ run.call.schema_version = "3" /\ run.call.flat /\ run.result.err = "none")
    => LET entries == FlatEntries(Delivered)
           files == Matched(run.result.sample_files)
           basepath == basepath_or_default(last_basepath(run.result.tags))
       IN /\ Len(entries) = Cardinality(files)
          /\ \A i, j \in 1..Len(entries) :
               i # j => entries[i].path # entries[j].path
          /\ \A i \in 1..Len(entries) :
               \E f \in files :
                 /\ entries[i].path = escape(join(basepath, f))
                 /\ entries[i].sample
                      = escape(get_region_tag(GenTree, join(getcwd, f)).value)

-----------------------------------------------------------------------------
(* add_documents observed call by call *)

\* what one add_documents call leaves: the store after its loop (placed), the
\* store it returns with, and the documents it was given
Observe(documents, looped, res) ==
  /\ keyed_docs' = res.kd
  /\ added' = added \o SubSeq(documents, 1, res.done)
  /\ last' = [op |-> "add_documents", err |-> res.err, moved |-> res.moved,
              documents |-> documents, placed |-> looped.kd]
  /\ UNCHANGED <<strict, resolver, tree, idx, sample, tag, run>>

Call(documents) ==
  Observe(documents, add_loop(keyed_docs, documents, 1, strict),
          add_documents(keyed_docs, documents, strict, resolver))

\* IndexedDocs.add_documents called with a batch of new documents
AddBatch ==
  \E batch \in SeqsUpTo(DocKinds, MaxBatch) :
    /\ Len(batch) <= Room
    /\ Call([i \in 1..Len(batch) |-> Document(Len(added) + i, batch[i][1], batch[i][2])])

InitBatch == InitStore

NextBatch == AddBatch

SpecBatch == InitBatch /\ [][NextBatch]_vars

\* a document whose 'type' field is absent or no string (a unit that is no mapping included)
Untyped(doc) ==
  \/ ~doc.obj.isdict
  \/ ~doc.obj.has_type
  \/ doc.obj.type.py # "str"

\* k is the part of the text s before its first '/'
BeforeFirstSlash(k, s) ==
  /\ \A j \in 1..Len(k) : k[j] # "/"
  /\ \/ s = k
     \/ Len(s) > Len(k) /\ SubSeq(s, 1, Len(k) + 1) = k \o <<"/">>

\* the resolver names a type for the document, and the document is under it
MovedByResolver(kd, doc) ==
  /\ resolver # "None"
  /\ CallResolver(resolver, doc) \notin { <<>>, SCHEMA_TYPE_ABSENT }
  /\ \E j \in 1..Len(of_type(kd, CallResolver(resolver, doc))) :
       of_type(kd, CallResolver(resolver, doc))[j] = doc

InList(doc, list) == \E j \in 1..Len(list) : list[j] = doc

\* C11: an add_documents call given a document without a string 'type' fails
\* with SyntaxError in strict mode; in non-strict mode it does not fail, its
\* loop puts every such document in '(no type)', and afterwards the document
\* is there or where the resolver moved it. The loop puts a document under
\* another key only if its 'type' is a string, the key being the part of the
\* string before the first '/'.
C11_UntypedGoesToBucket ==
  last.op = "add_documents" =>
    /\ (strict /\ \E i \in 1..Len(last.documents) : Untyped(last.documents[i]))
         => last.err = "SyntaxError"
    /\ ~strict =>
         /\ last.err = "none"
         /\ \A i \in 1..Len(last.documents) :
              Untyped(last.documents[i]) =>
                /\ InList(last.documents[i], of_type(last.placed, SCHEMA_TYPE_ABSENT))
                /\ \/ InList(last.documents[i], of_type(keyed_docs, SCHEMA_TYPE_ABSENT))
                   \/ MovedByResolver(keyed_docs, last.documents[i])
    /\ \A i \in 1..Len(added) :
         Untyped(added[i]) =>
           \/ InList(added[i], of_type(keyed_docs, SCHEMA_TYPE_ABSENT))
           \/ MovedByResolver(keyed_docs, added[i])
    /\ \A k \in DOMAIN last.placed \ {SCHEMA_TYPE_ABSENT} :
         \A i \in 1..Len(last.documents) :
           InList(last.documents[i], last.placed[k]) =>
             /\ ~Untyped(last.documents[i])
             /\ BeforeFirstSlash(k, last.documents[i].obj.type.s)

\* a non-strict call with a document whose 'type' is a number and a unit that
\* is no mapping: the resolver moved one of them, the other stays in '(no type)'
C11_Witness ==
  /\ last.op = "add_documents"
  /\ ~strict
  /\ last.moved >= 1
  /\ \E i, j \in 1..Len(last.documents) :
       /\ last.documents[i].obj = T_INT
       /\ last.documents[j].obj = NotADict
       /\ \/ InList(last.documents[i], of_type(keyed_docs, SCHEMA_TYPE_ABSENT))
          \/ InList(last.documents[j], of_type(keyed_docs, SCHEMA_TYPE_ABSENT))

-----------------------------------------------------------------------------
(* Order and membership queries of the store *)

\* C12: every per-type list holds its documents in arrival order: a document
\* passed to the store earlier (its id is its arrival number) comes before one
\* passed later, whether the type came from the 'type' field or the resolver.
C12_ArrivalOrder ==
  \A k \in DOMAIN keyed_docs :
    \A p, q \in 1..Len(of_type(keyed_docs, k)) :
      p < q => of_type(keyed_docs, k)[p].id < of_type(keyed_docs, k)[q].id

\* the type names contains is asked about
QueriedNames ==
  { SCHEMA_TYPE_ABSENT, MANIFEST_TYPE, TESTPLAN_TYPE, <<>>, <<"other", "/", "sub">> }

\* C13: in every store state and for every list of type names, '(no type)'
\* included, contains is True exactly when of_type is non-empty for each name.
C13_ContainsIffNonEmpty ==
  \A type_names \in SeqsUpTo(QueriedNames, 2) :
    contains(keyed_docs, type_names)
      <=> \A i \in 1..Len(type_names) : of_type(keyed_docs, type_names[i]) # <<>>

-----------------------------------------------------------------------------
(* The value get_region_tag returns *)

\* C14: get_region_tag never returns the empty string: for every file content
\* it returns a non-empty id or raises.
C14_RegionTagNonEmpty ==
  (tag # Idle /\ tag.result.err = "none") => tag.result.value # <<>>

-----------------------------------------------------------------------------
(* The command line split into files and tags *)

IsTagToken(token) == token # <<>> /\ Head(token) = "--"

TagTokens(tokens) == SelectSeq(tokens, IsTagToken)

FileTokens(tokens) == SelectSeq(tokens, LAMBDA token : ~IsTagToken(token))

\* how often x occurs in a list
Count(x, list) == Cardinality({ i \in 1..Len(list) : list[i] = x })

\* C15: parse_files_and_tags partitions the tokens. The tags are the tokens
\* that start with '--', in their order, each split at its first '=' (value ''
\* without '='); the files are the other tokens, sorted; files and tags
\* together are as many as the tokens.
C15_TokensPartitioned ==
  Ran =>
    LET tokens == run.call.files_and_tags
        tags == run.result.tags
        files == run.result.sample_files
    IN /\ Len(tags) = Len(TagTokens(tokens))
       /\ \A i \in 1..Len(tags) :
            LET text == Tail(TagTokens(tokens)[i])
            IN /\ \A j \in 1..Len(tags[i][1]) : tags[i][1][j] # "="
               /\ IF \E j \in 1..Len(text) : text[j] = "="
                  THEN text = tags[i][1] \o <<"=">> \o tags[i][2]
                  ELSE tags[i] = <<text, <<>>>>
       /\ \A x \in Tokens : Count(x, files) = Count(x, FileTokens(tokens))
       /\ \A i, j \in 1..Len(files) : i < j => ~str_lt(files[j], files[i])
       /\ Len(files) + Len(tags) = Len(tokens)

\* a tag with two '=' between two file arguments given out of order
C15_Witness ==
  /\ Ran
  /\ Len(run.result.sample_files) = 2
  /\ run.result.sample_files # FileTokens(run.call.files_and_tags)
  /\ \E i \in 1..Len(run.result.tags) :
       \E j \in 1..Len(run.result.tags[i][2]) : run.result.tags[i][2][j] = "="

====
